---- MODULE Spec2Model ----
(***************************************************************************)
(* Model of packages/electron_app/build.py: a two-command parallel build   *)
(* launcher.  The main process builds a multiprocessing.Pool of            *)
(* cpu_count()-1 workers and maps BuildProcess over a list of command      *)
(* strings.  BuildProcess prints a notice, runs check_call("pwd") and      *)
(* check_call(cmd) inside one try block whose only handler is              *)
(* `except CalledProcessError: pass`.                                      *)
(*                                                                         *)
(* check_call is called without shell=True, so the whole command string is *)
(* the name of the program to execute.  Pool.map splits the iterable into  *)
(* chunks of ceil(len / (4 * processes)) items, which is 1 for the         *)
(* two-element list of the program; a task is therefore one command.  The  *)
(* map result becomes ready only when every task has reported (CPython 3), *)
(* and then re-raises the first exception a worker reported.               *)
(***************************************************************************)
EXTENDS Integers, Sequences, FiniteSets, TLC

\* ---- bounds ----
MaxCpu == 3

\* ---- program constants ----
NumCmds == 2

CopyCmd == "cp -R dist ../electron_app/dist/renderer"

NpmCmd == "pushd ../web_app && npm run build &&  && popd"

\* The command strings a run may be given: the two hardcoded ones and the
\* one-word commands of the test scenarios.
Commands == {CopyCmd, NpmCmd, "true", "false"}

\* Programs that exist on the host's search path.
OnPath == {"pwd", "true", "false"}

Terminal == {"done", "failed"}

VARIABLES
  cpu,        \* value returned by cpu_count()
  cmds,       \* the list handed to p.map
  pc,         \* main process: "start", "map", "wait", "done", "failed"
  raised,     \* exception that escaped the main process, or "none"
  processes,  \* number of workers of the pool (0: no pool)
  taskq,      \* tasks not yet picked up by a worker
  outq,       \* results sent by workers, not yet handled
  numberLeft, \* MapResult._number_left
  success,    \* MapResult._success
  value,      \* MapResult._value when not success: first exception
  wstate,     \* per worker: "idle","build","diagwait","targetwait","result","terminated"
  wtask,      \* per worker: task in hand, 0 if none
  wres,       \* per worker: exception that escaped BuildProcess, or "none"
  whung,      \* per worker: its current child process never exits
  tstate,     \* per command: "none","queued","running","finished"
  invoked,    \* per command: number of BuildProcess invocations
  diag,       \* per command: outcome of check_call("pwd")
  target,     \* per command: outcome of check_call(cmd)
  escaped,    \* per command: exception that escaped BuildProcess, or "none"
  stdout      \* notices printed, in order

vars == <<cpu, cmds, pc, raised, processes, taskq, outq, numberLeft, success,
          value, wstate, wtask, wres, whung, tstate, invoked, diag, target,
          escaped, stdout>>

mainVars == <<pc, raised, processes, numberLeft, success, value>>

histVars == <<tstate, invoked, diag, target, escaped, stdout>>

Tasks == 1..NumCmds

Workers == 1..processes

\* ---- pure helpers ----

\* Pool(cpu_count()-1): the argument handed to Pool.
PoolSize(n) == n - 1

\* check_call(args) with a string and shell=False: the string is the program.
ProgramName(cmd) == cmd

\* Popen succeeds iff the program exists; otherwise FileNotFoundError.
Launches(cmd) == ProgramName(cmd) \in OnPath

\* Exit statuses a launched program can end with.
ExitStatuses(prog) ==
  IF prog = "true" THEN {0}
  ELSE IF prog = "false" THEN {1}
  ELSE {0, 1}

RcName(rc) == IF rc = 0 THEN "zero" ELSE "nonzero"

\* Variant: subprocess.call semantics, the return code is never checked.
CallNoCheck(rc) == "none"

\* check_call: a non-zero return code raises CalledProcessError.
CheckCall(rc) == IF rc # 0 THEN "CalledProcessError" ELSE "none"

\* Variant: the handler names the wrong exception class.
CaughtWrongClass(exc) == exc = "FileNotFoundError"

\* Variant: a blanket `except Exception`.
CaughtAny(exc) == TRUE

\* except CalledProcessError: pass
Caught(exc) == exc = "CalledProcessError"

\* What leaves BuildProcess when exc is raised inside the try block.
BuildProcessResult(exc) ==
  IF exc = "none" \/ Caught(exc) THEN "none" ELSE exc

\* Variant: the last command of the list is not submitted.
ChunksDropLast(list) == [i \in 1..(Len(list) - 1) |-> i]

\* p.map(BuildProcess, list): one task per list element, in list order.
Chunks(list) == [i \in 1..Len(list) |-> i]

\* Variant: the result is ready as soon as one task failed.
ReadyOnFirstFailure(left, ok) == left = 0 \/ ~ok

\* MapResult: ready only when every task has reported.
Ready(left, ok) == left = 0

\* Variant: a worker picks up a task whatever it is doing.
IdleAlways(w) == TRUE

\* A pool worker asks for the next task only between two tasks.
Idle(w) == wstate[w] = "idle"

Range(s) == {s[i] : i \in DOMAIN s}

\* ---- initial state ----
Init ==
  /\ cpu \in 1..MaxCpu
  /\ cmds \in [1..NumCmds -> Commands]
  /\ pc = "start"
  /\ raised = "none"
  /\ processes = 0
  /\ taskq = <<>>
  /\ outq = <<>>
  /\ numberLeft = 0
  /\ success = TRUE
  /\ value = "none"
  /\ wstate = <<>>
  /\ wtask = <<>>
  /\ wres = <<>>
  /\ whung = <<>>
  /\ tstate = [t \in Tasks |-> "none"]
  /\ invoked = [t \in Tasks |-> 0]
  /\ diag = [t \in Tasks |-> "none"]
  /\ target = [t \in Tasks |-> "none"]
  /\ escaped = [t \in Tasks |-> "none"]
  /\ stdout = <<>>

\* ---- main process ----

\* with Pool(cpu_count()-1) as p: Pool raises ValueError when processes < 1.
PoolConstruct ==
  /\ pc = "start"
  /\ LET n == PoolSize(cpu) IN
       IF n < 1
       THEN /\ pc' = "failed"
            /\ raised' = "ValueError"
            /\ UNCHANGED <<processes, wstate, wtask, wres, whung>>
       ELSE /\ pc' = "map"
            /\ processes' = n
            /\ wstate' = [w \in 1..n |-> "idle"]
            /\ wtask' = [w \in 1..n |-> 0]
            /\ wres' = [w \in 1..n |-> "none"]
            /\ whung' = [w \in 1..n |-> FALSE]
            /\ UNCHANGED raised
  /\ UNCHANGED <<cpu, cmds, taskq, outq, numberLeft, success, value>>
  /\ UNCHANGED histVars

\* p.map(BuildProcess, [...]): submit every task, then block on the result.
Map ==
  /\ pc = "map"
  /\ taskq' = Chunks(cmds)
  /\ numberLeft' = Len(Chunks(cmds))
  /\ tstate' = [t \in Tasks |-> IF t \in Range(Chunks(cmds)) THEN "queued" ELSE tstate[t]]
  /\ pc' = "wait"
  /\ UNCHANGED <<cpu, cmds, raised, processes, outq, success, value,
                 wstate, wtask, wres, whung, invoked, diag, target, escaped, stdout>>

\* Result handler: MapResult._set for the next result.
HandleResult ==
  /\ pc = "wait"
  /\ outq # <<>>
  /\ LET msg == Head(outq) IN
       /\ numberLeft' = numberLeft - 1
       /\ IF ~msg.ok /\ success
          THEN success' = FALSE /\ value' = msg.exc
          ELSE UNCHANGED <<success, value>>
  /\ outq' = Tail(outq)
  /\ UNCHANGED <<cpu, cmds, pc, raised, processes, taskq, wstate, wtask, wres, whung>>
  /\ UNCHANGED histVars

\* map returns or re-raises; leaving the with block terminates the pool and
\* the script ends.
MapReturn ==
  /\ pc = "wait"
  /\ Ready(numberLeft, success)
  /\ IF success
     THEN pc' = "done" /\ UNCHANGED raised
     ELSE pc' = "failed" /\ raised' = value
  /\ wstate' = [w \in Workers |-> "terminated"]
  /\ UNCHANGED <<cpu, cmds, processes, taskq, outq, numberLeft, success, value,
                 wtask, wres, whung>>
  /\ UNCHANGED histVars

\* ---- workers ----

\* BuildProcess ends in worker w, exc having been raised in its try block
\* ("none": the block ran to its end).
Finish(w, exc) ==
  /\ wstate' = [wstate EXCEPT ![w] = "result"]
  /\ wres' = [wres EXCEPT ![w] = BuildProcessResult(exc)]
  /\ tstate' = [tstate EXCEPT ![wtask[w]] = "finished"]
  /\ escaped' = [escaped EXCEPT ![wtask[w]] = BuildProcessResult(exc)]

\* A worker takes the next task and calls BuildProcess(cmd).
TakeTask(w) ==
  /\ wstate[w] # "terminated"
  /\ Idle(w)
  /\ taskq # <<>>
  /\ LET t == Head(taskq) IN
       /\ wtask' = [wtask EXCEPT ![w] = t]
       /\ tstate' = [tstate EXCEPT ![t] = "running"]
       /\ invoked' = [invoked EXCEPT ![t] = @ + 1]
  /\ taskq' = Tail(taskq)
  /\ wstate' = [wstate EXCEPT ![w] = "build"]
  /\ UNCHANGED <<cpu, cmds, outq, wres, whung, diag, target, escaped, stdout>>
  /\ UNCHANGED mainVars

\* print(f"BUILDING {cmd}"); check_call("pwd") starts its child.
StartBuild(w) ==
  /\ wstate[w] = "build"
  /\ stdout' = Append(stdout, wtask[w])
  /\ IF Launches("pwd")
     THEN /\ \E h \in BOOLEAN : whung' = [whung EXCEPT ![w] = h]
          /\ wstate' = [wstate EXCEPT ![w] = "diagwait"]
          /\ UNCHANGED <<wres, tstate, escaped, diag>>
     ELSE /\ diag' = [diag EXCEPT ![wtask[w]] = "nolaunch"]
          /\ Finish(w, "FileNotFoundError")
          /\ UNCHANGED whung
  /\ UNCHANGED <<cpu, cmds, taskq, outq, wtask, invoked, target>>
  /\ UNCHANGED mainVars

\* The pwd child exits; check_call("pwd") returns or raises; on return
\* check_call(cmd) starts its child.
DiagExit(w) ==
  /\ wstate[w] = "diagwait"
  /\ ~whung[w]
  /\ \E rc \in ExitStatuses("pwd") :
       /\ diag' = [diag EXCEPT ![wtask[w]] = RcName(rc)]
       /\ IF CheckCall(rc) # "none"
          THEN /\ Finish(w, CheckCall(rc))
               /\ UNCHANGED <<whung, target>>
          ELSE IF Launches(cmds[wtask[w]])
          THEN /\ \E h \in BOOLEAN : whung' = [whung EXCEPT ![w] = h]
               /\ wstate' = [wstate EXCEPT ![w] = "targetwait"]
               /\ target' = [target EXCEPT ![wtask[w]] = "started"]
               /\ UNCHANGED <<wres, tstate, escaped>>
          ELSE /\ target' = [target EXCEPT ![wtask[w]] = "nolaunch"]
               /\ Finish(w, "FileNotFoundError")
               /\ UNCHANGED whung
  /\ UNCHANGED <<cpu, cmds, taskq, outq, wtask, invoked, stdout>>
  /\ UNCHANGED mainVars

\* The target child exits; check_call(cmd) returns or raises.
TargetExit(w) ==
  /\ wstate[w] = "targetwait"
  /\ ~whung[w]
  /\ \E rc \in ExitStatuses(ProgramName(cmds[wtask[w]])) :
       /\ target' = [target EXCEPT ![wtask[w]] = RcName(rc)]
       /\ Finish(w, CheckCall(rc))
  /\ UNCHANGED <<cpu, cmds, taskq, outq, wtask, whung, invoked, diag, stdout>>
  /\ UNCHANGED mainVars

\* The worker reports (success, value) for its task and is free again.
SendResult(w) ==
  /\ wstate[w] = "result"
  /\ outq' = Append(outq, [task |-> wtask[w], ok |-> wres[w] = "none", exc |-> wres[w]])
  /\ wstate' = [wstate EXCEPT ![w] = "idle"]
  /\ wtask' = [wtask EXCEPT ![w] = 0]
  /\ wres' = [wres EXCEPT ![w] = "none"]
  /\ UNCHANGED <<cpu, cmds, taskq, whung>>
  /\ UNCHANGED mainVars
  /\ UNCHANGED histVars

WorkerStep(w) ==
  \/ TakeTask(w)
  \/ StartBuild(w)
  \/ DiagExit(w)
  \/ TargetExit(w)
  \/ SendResult(w)

Next ==
  \/ PoolConstruct
  \/ Map
  \/ HandleResult
  \/ MapReturn
  \/ \E w \in Workers : TakeTask(w)
  \/ \E w \in Workers : StartBuild(w)
  \/ \E w \in Workers : DiagExit(w)
  \/ \E w \in Workers : TargetExit(w)
  \/ \E w \in Workers : SendResult(w)

Spec == Init /\ [][Next]_vars

\* Fair scheduling: the main process and every worker process keep running,
\* and a child that is not hung exits.
Fairness ==
  /\ WF_vars(PoolConstruct)
  /\ WF_vars(Map)
  /\ WF_vars(HandleResult)
  /\ WF_vars(MapReturn)
  /\ \A w \in 1..MaxCpu : WF_vars(w \in Workers /\ WorkerStep(w))

LiveSpec == Spec /\ Fairness

TypeOK ==
  /\ pc \in {"start", "map", "wait", "done", "failed"}
  /\ processes \in 0..MaxCpu
  /\ numberLeft \in 0..NumCmds
  /\ \A t \in Tasks : tstate[t] \in {"none", "queued", "running", "finished"}

\* ---- derived state ----

Max(a, b) == IF a >= b THEN a ELSE b

Running == {t \in Tasks : tstate[t] = "running"}

Failed(t) == diag[t] = "nonzero" \/ target[t] \in {"nonzero", "nolaunch"}

NoLaunch(t) == diag[t] = "nolaunch" \/ target[t] = "nolaunch"

AnyHung == \E w \in Workers : whung[w]

\* ---- claims ----

\* C1: every command of the list handed to the pool has BuildProcess invoked
\* for it exactly once by the time the runner finishes, never twice at any
\* time, whatever happened to the other command.
C1_ExactlyOnce ==
  /\ \A t \in Tasks : invoked[t] <= 1
  /\ (pc \in Terminal /\ processes > 0) => \A t \in Tasks : invoked[t] = 1

C1_Witness ==
  /\ pc \in Terminal
  /\ \E t \in Tasks : \E u \in Tasks \ {t} :
       Failed(t) /\ invoked[t] = 1 /\ invoked[u] = 1

\* C2: when no child fails to launch, whatever mix of zero and non-zero exit
\* statuses the children produce, every BuildProcess call returns normally,
\* nothing reaches the caller of map and the process ends in success.
C2_NonZeroExitSwallowed ==
  /\ \A t \in Tasks :
       (tstate[t] = "finished" /\ ~NoLaunch(t)) => escaped[t] = "none"
  /\ (pc \in Terminal /\ processes > 0 /\ \A t \in Tasks : ~NoLaunch(t))
       => (pc = "done" /\ raised = "none")

C2_Witness ==
  /\ cmds = <<"true", "false">>
  /\ pc = "done"
  /\ target[1] = "zero"
  /\ target[2] = "nonzero"

\* C3: the runner has returned only in states where no dispatched command
\* is still pending or running and no worker holds a task, also when a
\* worker reported an error.
C3_ReturnsAfterAllFinished ==
  pc \in Terminal =>
    /\ \A t \in Tasks : tstate[t] \notin {"queued", "running"}
    /\ \A w \in Workers : wtask[w] = 0
    /\ taskq = <<>>

C3_Witness ==
  /\ pc = "failed"
  /\ processes > 0
  /\ \E t \in Tasks : escaped[t] # "none"
  /\ \A t \in Tasks : tstate[t] = "finished"

\* C4 (as stated): once the pool has been asked for, it has
\* max(1, cpu_count - 1) workers, 1 worker on a single-core host.
C4_WorkerCountFloored ==
  pc # "start" => processes = Max(1, cpu - 1)

\* C5 (as stated): the target command is executed after the diagnostic
\* whether the diagnostic exits zero or non-zero.
C5_TargetAlwaysRuns ==
  \A t \in Tasks :
    (tstate[t] = "finished" /\ diag[t] \in {"zero", "nonzero"}) => target[t] # "none"

\* C5 (amended): the target command is executed iff the diagnostic exits
\* zero; a non-zero exit of the diagnostic is caught, the target command is
\* skipped and BuildProcess returns normally.
C5_TargetRunsIffDiagZero ==
  \A t \in Tasks :
    tstate[t] = "finished" =>
      /\ diag[t] = "zero" => target[t] # "none"
      /\ diag[t] = "nonzero" => (target[t] = "none" /\ escaped[t] = "none")

C5_Witness ==
  \E t \in Tasks :
    tstate[t] = "finished" /\ diag[t] = "nonzero" /\ target[t] = "none"

\* C6 (as stated): the failure of an unrunnable command string is swallowed
\* by the except clause and the runner completes normally.
C6_UnrunnableSwallowed ==
  /\ \A t \in Tasks :
       (tstate[t] = "finished" /\ target[t] \in {"nonzero", "nolaunch"})
         => escaped[t] = "none"
  /\ (pc \in Terminal /\ processes > 0) => pc = "done"

\* C7: only a non-zero exit is caught; a child that cannot be launched
\* escapes BuildProcess, and the process ends in failure exactly when the
\* pool could not be built or some exception escaped a BuildProcess call.
C7_OnlyNonZeroExitCaught ==
  /\ \A t \in Tasks :
       tstate[t] = "finished" =>
         /\ NoLaunch(t) <=> escaped[t] = "FileNotFoundError"
         /\ ~NoLaunch(t) <=> escaped[t] = "none"
  /\ pc \in Terminal =>
       /\ pc = "failed" <=> (processes = 0 \/ \E t \in Tasks : escaped[t] # "none")
       /\ pc = "failed" <=> raised # "none"
       /\ processes = 0 <=> raised = "ValueError"

C7_Witness ==
  /\ cmds = <<CopyCmd, NpmCmd>>
  /\ pc = "failed"
  /\ raised = "FileNotFoundError"
  /\ \A t \in Tasks : target[t] = "nolaunch"

\* C9: at most as many commands run at the same time as the pool has
\* workers, each running command holds a worker of its own, and a command
\* stays queued while no worker is free.
C9_BoundedParallelism ==
  /\ Cardinality(Running) <= processes
  /\ \A t \in Running : \E w \in Workers : wtask[w] = t
  /\ \A t \in Tasks : tstate[t] = "queued" => \A w \in Workers : wtask[w] # t

C9_Witness ==
  /\ processes = 1
  /\ tstate[1] = "running"
  /\ tstate[2] = "queued"

\* C10: under fair scheduling the runner eventually returns unless some
\* child never exits, and once a child never exits the runner never returns.
C10_ReturnsUnlessHung ==
  /\ <>(pc \in Terminal \/ AnyHung)
  /\ [](AnyHung => pc \notin Terminal)

C10_Witness ==
  /\ pc = "wait"
  /\ AnyHung
  /\ numberLeft = 1
  /\ outq = <<>>
  /\ \E t \in Tasks : tstate[t] = "finished"
====
